---------------------------- MODULE Spec2Model ----------------------------
(***************************************************************************)
(* A model of the workflow queue of src/App.tsx: the item store (items),   *)
(* the event log (logs), the running flag kept twice (the React state      *)
(* isProcessing and the ref isProcessingRef), and the invocations of       *)
(* processQueue, each suspended at one of its three awaits.                *)
(*                                                                         *)
(* JavaScript runs a handler, and the continuation of an await, to         *)
(* completion: every action below is one such run.  The effect that copies *)
(* items into itemsRef.current (App.tsx 44-46) runs after the commit of a   *)
(* setItems.  A handler is a discrete event, whose render and effects React *)
(* runs before the event ends: the command actions include the effect.     *)
(* The writes of a continuation of processQueue are rendered by a later     *)
(* task: Spec and FairSpec take that task to run before any other handler,  *)
(* timer or continuation, RefSpec lets a continuation of another            *)
(* invocation run before it.  settings changes in handlers only, so         *)
(* settingsRef.current is read as settings.                                 *)
(* generateId (utils.ts 18-20) draws a random string; Spec gives every call *)
(* a string not given before (nextId), IdSpec draws it from RandomIds.      *)
(*                                                                         *)
(* cmds, failed, stoppedLoops and stopSnap are history variables: they     *)
(* record what has happened and no action of the program reads them.       *)
(***************************************************************************)
EXTENDS Integers, Sequences, FiniteSets, TLC

\* ------------------------------------------------------------- bounds
\* Items ever created by handleFilesSelected.
MaxItems == 3
\* Files of one handleFilesSelected call.
MaxBatch == 2
\* Invocations of processQueue suspended at an await at the same time.
MaxLoops == 2
\* Characters one analysis stream delivers.
MaxText == 2
\* User commands (handler calls) of one behaviour.
MaxCmds == 4
\* Strings that generateId draws from in IdSpec.
MaxRandom == 2

\* ------------------------------------------------------------- values
\* WorkflowStatus (types.ts, used by name in App.tsx).
PENDING == "PENDING"
ANALYZING == "ANALYZING"
GENERATING == "GENERATING"
COMPLETED == "COMPLETED"
ERROR == "ERROR"

\* An optional field: undefined is None, a value v is Some(v).
None == <<>>
Some(v) == <<v>>

\* A text is a sequence of characters; '' is the empty sequence.
EmptyText == <<>>
\* The texts chunk.text takes (an empty one is skipped by describeImage).
ChunkTexts == {<<>>, <<"a">>}
\* fullText || "No description generated."
NoDescription == <<"No description generated.">>

\* What the stage calls are given when no call is in flight.
NoConfig == [apiKey |-> ""]

\* The values of config.apiKey and of the environment's API_KEY: none, or a key.
Keys == {"", "key"}

\* The values of generationConfig.aspectRatio.
AspectRatios == {"16:9", "1:1"}

\* DEFAULT_SETTINGS, the fields the stage calls and the loop read.
DEFAULT_SETTINGS ==
    [analysisConfig |-> [apiKey |-> ""],
     generationConfig |-> [apiKey |-> "", aspectRatio |-> "16:9"]]

\* The settings the settings dialog can save.
AppSettings ==
    [analysisConfig : [apiKey : Keys],
     generationConfig : [apiKey : Keys, aspectRatio : AspectRatios]]

VARIABLES items, logs, isProcessing, isProcessingRef, loops, nextId,
          itemsRef, settings, env,
          cmds, failed, stoppedLoops, stopSnap

vars == <<items, logs, isProcessing, isProcessingRef, loops, nextId,
          itemsRef, settings, env,
          cmds, failed, stoppedLoops, stopSnap>>

\* The settings and the environment.
conf == <<settings, env>>

\* The history variables but cmds.
hist == <<failed, stoppedLoops, stopSnap>>

LoopIds == 1..MaxLoops

\* No invocation of processQueue in this slot.
\* config is the ServiceConfig the stage call in flight was given, closure the
\* settings of the render whose processQueue was called.
NoLoop ==
    [pc |-> "none", id |-> 0, file |-> 0, fullText |-> EmptyText, config |-> NoConfig,
     closure |-> DEFAULT_SETTINGS]

\* The ids handleFilesSelected has given out.
Ids == 1..(nextId - 1)

\* ------------------------------------------------------------- store
\* { ...item, ...updates }: the fields updates names replace the item's.
Merge(item, updates) ==
    [f \in DOMAIN item |-> IF f \in DOMAIN updates THEN updates[f] ELSE item[f]]

\* An update that takes the item out and appends the new version.
updateItemReappend(its, id, updates) ==
    LET other(item) == item.id # id
        same(item) == item.id = id
        hit == SelectSeq(its, same)
    IN  SelectSeq(its, other) \o [k \in 1..Len(hit) |-> Merge(hit[k], updates)]

\* An update that creates the item when the store has none with this id.
updateItemUpsert(its, id, updates) ==
    IF \E k \in 1..Len(its) : its[k].id = id
    THEN [k \in 1..Len(its) |-> IF its[k].id = id THEN Merge(its[k], updates) ELSE its[k]]
    ELSE Append(its, updates)

\* An update that does not compare the id.
updateItemAll(its, id, updates) ==
    [k \in 1..Len(its) |-> Merge(its[k], updates)]

\* updateItem(id, updates): prev.map(item => item.id === id ? merged : item)
updateItem(its, id, updates) ==
    [k \in 1..Len(its) |-> IF its[k].id = id THEN Merge(its[k], updates) ELSE its[k]]

\* A search that returns the last Pending item.
findLastIndex(its) ==
    IF \E k \in 1..Len(its) : its[k].status = PENDING
    THEN CHOOSE k \in 1..Len(its) :
            /\ its[k].status = PENDING
            /\ \A j \in (k + 1)..Len(its) : its[j].status # PENDING
    ELSE 0

\* itemsRef.current.findIndex(item => item.status === PENDING): the first
\* index (from 1) of a Pending item, 0 when there is none (-1 in the code).
findIndex(its) ==
    IF \E k \in 1..Len(its) : its[k].status = PENDING
    THEN CHOOSE k \in 1..Len(its) :
            /\ its[k].status = PENDING
            /\ \A j \in 1..(k - 1) : its[j].status # PENDING
    ELSE 0

\* The effect of App.tsx 44-46, run with the render of the new items.
useEffect == itemsRef' = items'

\* addLog(type, message, details): [...prev, newLog].  item is the id of the
\* item the message names (0: none).
addLog(lg, type, message, item) ==
    Append(lg, [type |-> type, message |-> message, item |-> item])

\* generateId(): the n-th id handed out, when no string is drawn twice.
generateId(n) == n

\* Math.random().toString(36).substring(2, 9): the strings generateId can
\* draw, each of them at every call.
RandomIds == 1..MaxRandom

\* A new item of handleFilesSelected.
NewItem(id, file) ==
    [id |-> id, file |-> file, status |-> PENDING,
     progressLog |-> <<"Queued for processing...">>,
     originalPrompt |-> None, generatedImageUrl |-> None, error |-> None]

\* The statuses of an item in flight.
InFlight == {ANALYZING, GENERATING}

\* The ids of the items of the store whose status is in sts.
IdsWith(its, sts) == {its[k].id : k \in {j \in 1..Len(its) : its[j].status \in sts}}

\* The item of the store with this id (there is one).
ItemOf(its, id) == its[CHOOSE k \in 1..Len(its) : its[k].id = id]

\* The ids of the store.
IdsOf(its) == {its[k].id : k \in 1..Len(its)}

\* ------------------------------------------------------------- stats
Count(its, st) == Cardinality({k \in 1..Len(its) : its[k].status = st})

\* Stats that count an Error item as completed as well as failed.
statsFinished(its) ==
    [total |-> Len(its), completed |-> Count(its, COMPLETED) + Count(its, ERROR),
     failed |-> Count(its, ERROR), pending |-> Count(its, PENDING)]

\* stats: items.reduce over the statuses.
stats(its) ==
    [total |-> Len(its), completed |-> Count(its, COMPLETED),
     failed |-> Count(its, ERROR), pending |-> Count(its, PENDING)]

\* ------------------------------------------------------------- Init
InitStore ==
    /\ items = <<>>
    /\ logs = <<>>
    /\ isProcessing = FALSE
    /\ isProcessingRef = FALSE
    /\ loops = [l \in LoopIds |-> NoLoop]
    /\ nextId = 1
    /\ itemsRef = <<>>
    /\ settings = DEFAULT_SETTINGS
    /\ cmds = 0
    /\ failed = [i \in 1..MaxItems |-> 0]
    /\ stoppedLoops = {}
    /\ stopSnap = [cmds |-> 0, inflight |-> {}, pending |-> {}]

\* The state after the first render, in a build whose environment has API_KEY.
Init == InitStore /\ env = "key"

\* ------------------------------------------------------------- commands
\* A user command is counted.
Cmd == cmds < MaxCmds /\ cmds' = cmds + 1

\* The body of handleFilesSelected(files) for Len(ids) files, in file order,
\* ids being what the calls of generateId return.
AppendFiles(ids) ==
    /\ nextId + Len(ids) - 1 <= MaxItems
    /\ items' = items \o [k \in 1..Len(ids) |-> NewItem(ids[k], nextId + k - 1)]
    /\ nextId' = nextId + Len(ids)
    /\ logs' = addLog(logs, "info", "Added files to queue.", 0)
    /\ useEffect
    /\ UNCHANGED <<isProcessing, isProcessingRef, loops, hist, conf>>

\* handleFilesSelected(files), counted as a command.
filesSelected(ids) == Cmd /\ AppendFiles(ids)

\* handleFilesSelected(files): n files, and no string drawn twice.
handleFilesSelected(n) == filesSelected([k \in 1..n |-> generateId(nextId + k - 1)])

\* handleRemoveItem(id): prev.filter(item => item.id !== id)
handleRemoveItem(id) ==
    /\ Cmd
    /\ LET keep(item) == item.id # id IN items' = SelectSeq(items, keep)
    /\ useEffect
    /\ UNCHANGED <<logs, isProcessing, isProcessingRef, loops, nextId, hist, conf>>

\* A retry that leaves the description of the failed pass in place.
RetryUpdatesKeepPrompt ==
    [status |-> PENDING, error |-> None, generatedImageUrl |-> None,
     progressLog |-> <<"Retrying...">>]

\* The updates handleRetryItem makes.
RetryUpdates ==
    [status |-> PENDING, error |-> None, generatedImageUrl |-> None,
     originalPrompt |-> None, progressLog |-> <<"Retrying...">>]

\* handleRetryItem(id)
handleRetryItem(id) ==
    /\ items' = updateItem(items, id, RetryUpdates)
    /\ logs' = addLog(logs, "info", "Retrying item", id)

\* A RETRY button rendered for every finished item.
RetryButtonFinished(item) == item.status \in {ERROR, COMPLETED}

\* A RETRY button rendered whatever the status.
RetryButtonAlways(item) == TRUE

\* The RETRY button of an item: FlowCanvasItem renders it, and so calls
\* onRetry(item.id), only for an item whose status is ERROR.
RetryButton(item) == item.status = ERROR

\* retry(id): a click where the RETRY button of item id is, or would be.
Retry(id) ==
    /\ Cmd
    /\ id \in IdsOf(items)
    /\ IF RetryButton(ItemOf(items, id))
       THEN handleRetryItem(id)
       ELSE UNCHANGED <<items, logs>>
    /\ useEffect
    /\ UNCHANGED <<isProcessing, isProcessingRef, loops, nextId, hist, conf>>

\* ------------------------------------------------------------- engine
\* A while test that does not read the flag.
WhileTestIgnoresStop(currentIndex, ref) == currentIndex # 0

\* while (currentIndex !== -1 && isProcessingRef.current)
WhileTest(currentIndex, ref) == currentIndex # 0 /\ ref

\* Stage calls given the settings the handler closed over.
settingsOfClosure(closure) == closure

\* settingsRef.current, read when a stage call is made.
settingsRefCurrent(closure) == settings

\* A loop that leaves by a return, with no finally block.
LoopHeadNoFinally(l, lg, ref, proc, closure) ==
    LET currentIndex == findIndex(itemsRef) IN
    IF WhileTest(currentIndex, ref)
    THEN LET currentItem == itemsRef[currentIndex] IN
         /\ items' = updateItem(items, currentItem.id,
                         [status |-> ANALYZING, originalPrompt |-> Some(EmptyText)])
         /\ logs' = addLog(addLog(lg, "info", "Processing Item", currentItem.id),
                           "info", "[Step 1] Sending to Vision API...", 0)
         /\ loops' = [loops EXCEPT ![l] =
                         [pc |-> "describeImage", id |-> currentItem.id,
                          file |-> currentItem.file, fullText |-> EmptyText,
                          config |-> settingsRefCurrent(closure).analysisConfig,
                          closure |-> closure]]
         /\ isProcessingRef' = ref
         /\ isProcessing' = proc
    ELSE /\ items' = items
         /\ logs' = lg
         /\ loops' = [loops EXCEPT ![l] = NoLoop]
         /\ isProcessingRef' = ref
         /\ isProcessing' = proc

\* Lines 143-157 and 195-203 of processQueue, run by invocation l with the
\* log lg and the flags ref, proc as they stand: the search for the first
\* Pending item, the while test, and then either the start of that item's pass
\* up to the await of describeImage, or the finally block.
LoopHead(l, lg, ref, proc, closure) ==
    LET currentIndex == findIndex(itemsRef) IN
    IF WhileTest(currentIndex, ref)
    THEN LET currentItem == itemsRef[currentIndex] IN
         /\ items' = updateItem(items, currentItem.id,
                         [status |-> ANALYZING, originalPrompt |-> Some(EmptyText)])
         /\ logs' = addLog(addLog(lg, "info", "Processing Item", currentItem.id),
                           "info", "[Step 1] Sending to Vision API...", 0)
         /\ loops' = [loops EXCEPT ![l] =
                         [pc |-> "describeImage", id |-> currentItem.id,
                          file |-> currentItem.file, fullText |-> EmptyText,
                          config |-> settingsRefCurrent(closure).analysisConfig,
                          closure |-> closure]]
         /\ isProcessingRef' = ref
         /\ isProcessing' = proc
    ELSE /\ items' = items
         /\ logs' = addLog(lg, "info", "Queue processing finished or stopped.", 0)
         /\ loops' = [loops EXCEPT ![l] = NoLoop]
         /\ isProcessingRef' = FALSE
         /\ isProcessing' = FALSE

\* The invocations of processQueue between their guard and the end of
\* their finally block.
ActiveLoops == {l \in LoopIds : loops[l].pc # "none"}

\* The slot a new invocation of processQueue takes.
FreeLoop == CHOOSE l \in LoopIds : l \notin ActiveLoops /\ \A j \in 1..(l - 1) : j \in ActiveLoops

\* An invocation that has left is no longer one a stop was addressed to.
LoopLeaves(l) ==
    stoppedLoops' = IF loops'[l].pc = "none" THEN stoppedLoops \ {l} ELSE stoppedLoops

\* A start that never finds the queue running.
RunningNever == FALSE

\* if (isProcessingRef.current) return;
Running == isProcessingRef

\* processQueue(): start()
processQueue ==
    /\ Cmd
    /\ IF Running
       THEN UNCHANGED <<items, logs, isProcessing, isProcessingRef, loops, stoppedLoops>>
       ELSE /\ ActiveLoops # LoopIds
            /\ LoopHead(FreeLoop, addLog(logs, "info", "Queue processing started.", 0), TRUE, TRUE, settings)
            /\ LoopLeaves(FreeLoop)
    /\ useEffect
    /\ UNCHANGED <<nextId, failed, stopSnap, conf>>

\* stopProcessing(): stop()
stopProcessing ==
    /\ Cmd
    /\ isProcessingRef' = FALSE
    /\ isProcessing' = FALSE
    /\ logs' = addLog(logs, "warning", "Processing stopped by user.", 0)
    /\ stoppedLoops' = ActiveLoops
    /\ stopSnap' = [cmds |-> cmds', inflight |-> IdsWith(items, InFlight),
                    pending |-> IdsWith(items, {PENDING})]
    /\ UNCHANGED <<items, loops, nextId, failed, conf>>
    /\ useEffect

\* config.apiKey || getEnv('API_KEY')
ApiKey(config) == IF config.apiKey # "" THEN config.apiKey ELSE env

\* A stage call that does not look at the key.
KeyMissingNever(config) == FALSE

\* if (!apiKey) throw ...: the test both stage calls begin with.
KeyMissing(config) == ApiKey(config) = ""

\* A stream loop that passes each chunk, not the accumulated text, to
\* onStreamUpdate.
StreamChunkDelta(l, text) ==
    /\ loops[l].pc = "describeImage"
    /\ ~KeyMissing(loops[l].config)
    /\ Len(loops[l].fullText \o text) <= MaxText
    /\ LET fullText == loops[l].fullText \o text IN
       /\ loops' = [loops EXCEPT ![l].fullText = fullText]
       /\ items' = IF text # EmptyText
                   THEN updateItem(items, loops[l].id, [originalPrompt |-> Some(text)])
                   ELSE items
    /\ UNCHANGED <<logs, isProcessing, isProcessingRef, nextId, cmds, hist, conf>>

\* describeImage, one chunk of the stream: a chunk with text extends fullText
\* and is passed, whole, to onStreamUpdate, which is
\* updateItem(currentItem.id, { originalPrompt: partialText }).
StreamChunk(l, text) ==
    /\ loops[l].pc = "describeImage"
    /\ ~KeyMissing(loops[l].config)
    /\ Len(loops[l].fullText \o text) <= MaxText
    /\ LET fullText == loops[l].fullText \o text IN
       /\ loops' = [loops EXCEPT ![l].fullText = fullText]
       /\ items' = IF text # EmptyText
                   THEN updateItem(items, loops[l].id, [originalPrompt |-> Some(fullText)])
                   ELSE items
    /\ UNCHANGED <<logs, isProcessing, isProcessingRef, nextId, cmds, hist, conf>>

\* A describeImage that returns the accumulated text as it is.
describeImageRaw(fullText) == fullText

\* What describeImage returns when the stream ends.
describeImage(fullText) == IF fullText # EmptyText THEN fullText ELSE NoDescription

\* A loop that keeps the last partial text instead of writing the returned value.
FinalUpdatesSkipped(description) == <<>>

\* The update made when describeImage has returned: { originalPrompt: description }
FinalUpdates(description) == [originalPrompt |-> Some(description)]

\* describeImage resolves: lines 165-173 up to the await of generateVariation,
\* which is passed description; the invocation keeps it in fullText.
AnalysisReturns(l) ==
    /\ loops[l].pc = "describeImage"
    /\ ~KeyMissing(loops[l].config)
    /\ LET description == describeImage(loops[l].fullText) IN
       /\ items' = updateItem(updateItem(items, loops[l].id, FinalUpdates(description)),
                              loops[l].id, [status |-> GENERATING])
       /\ loops' = [loops EXCEPT ![l].pc = "generateVariation", ![l].fullText = description,
                                  ![l].config = settingsRefCurrent(loops[l].closure).generationConfig]
    /\ logs' = addLog(addLog(logs, "success", "[Step 1] Analysis complete.", 0),
                      "info", "[Step 2] Sending to Image Gen API...", 0)
    /\ UNCHANGED <<isProcessing, isProcessingRef, nextId, cmds, hist, conf>>

\* error.message || 'Unknown error occurred'
errorMsg(message) == IF message # "" THEN message ELSE "Unknown error occurred"

\* A catch block that logs the failure as a warning.
CatchLogWarning(lg, id) == addLog(lg, "warning", "Failed processing", id)

\* A catch block that drops the message.
CatchUpdatesNoMessage(message) == [status |-> ERROR, error |-> None]

\* The record the catch block logs.  The message names the item by its file
\* name; every item has a file of its own, and the record carries the item's id.
CatchLog(lg, id) == addLog(lg, "error", "Failed processing", id)

\* A catch block that records the message and leaves the status.
CatchUpdatesKeepStatus(message) == [error |-> Some(errorMsg(message))]

\* The updates the catch block makes.
CatchUpdates(message) == [status |-> ERROR, error |-> Some(errorMsg(message))]

\* A catch block that takes the failed item out of the store.
CatchRemoves(l, message) ==
    /\ logs' = CatchLog(logs, loops[l].id)
    /\ LET keep(item) == item.id # loops[l].id IN items' = SelectSeq(items, keep)
    /\ loops' = [loops EXCEPT ![l].pc = "delay", ![l].config = NoConfig]

\* The catch block, lines 182-191, ending at the await of delay(500).
Catch(l, message) ==
    /\ logs' = CatchLog(logs, loops[l].id)
    /\ items' = updateItem(items, loops[l].id, CatchUpdates(message))
    /\ loops' = [loops EXCEPT ![l].pc = "delay", ![l].config = NoConfig]

\* A stage call of invocation l has signalled an error.
Signalled(l) ==
    /\ failed' = [failed EXCEPT ![loops[l].id] = @ + 1]
    /\ UNCHANGED <<stoppedLoops, stopSnap>>

\* The message describeImage throws with when there is no key.
AnalysisKeyMissing == "API Key for Analysis step is missing. Please check Settings."

\* The messages describeImage throws with: the one above, and the one for a
\* request or a stream that fails.
AnalysisErrors == {"Analysis failed: ", AnalysisKeyMissing}

\* describeImage rejects.
AnalysisThrows(l, message) ==
    /\ loops[l].pc = "describeImage"
    /\ KeyMissing(loops[l].config) <=> message = AnalysisKeyMissing
    /\ Catch(l, message)
    /\ Signalled(l)
    /\ UNCHANGED <<isProcessing, isProcessingRef, nextId, cmds, conf>>

\* No answer within the timeout of fetchWithTimeout: the timer aborts the
\* request and fetch throws.
Aborted ==
    [kind |-> "throws", message |-> "The user aborted a request.", url |-> None, b64_json |-> None]

\* The answers of the generation service: the request fails (fetch throws
\* with a message), the timeout aborts it, the status is not ok, or a body
\* with data[0].url and data[0].b64_json each present or not.
AllResponses ==
    [kind : {"throws"}, message : {"Failed to fetch"}, url : {None}, b64_json : {None}]
    \cup {Aborted}
    \cup [kind : {"status"}, message : {""}, url : {None}, b64_json : {None}]
    \cup [kind : {"ok"}, message : {""}, url : {None, Some("u")}, b64_json : {None, Some("b")}]

\* The answers the queue is run against: one the service rejects, one with an
\* image.
Responses ==
    {r \in AllResponses : r.kind = "status" \/ (r.kind = "ok" /\ r.url # None /\ r.b64_json = None)}

\* A generateVariation that looks for the inline data first.
generateVariationInlineFirst(config, response) ==
    IF KeyMissing(config) THEN [ok |-> FALSE, value |-> "API Key for Generation step is missing."]
    ELSE IF response.kind = "throws" THEN [ok |-> FALSE, value |-> response.message]
    ELSE IF response.kind = "status" THEN [ok |-> FALSE, value |-> "API Error"]
    ELSE IF response.b64_json # None
         THEN [ok |-> TRUE, value |-> <<"data:image/png;base64,", response.b64_json[1]>>]
    ELSE IF response.url # None THEN [ok |-> TRUE, value |-> <<"url", response.url[1]>>]
    ELSE [ok |-> FALSE, value |-> "Invalid Response Structure"]

\* generateVariation: the image, or the message it throws with.
generateVariation(config, response) ==
    IF KeyMissing(config) THEN [ok |-> FALSE, value |-> "API Key for Generation step is missing."]
    ELSE IF response.kind = "throws" THEN [ok |-> FALSE, value |-> response.message]
    ELSE IF response.kind = "status" THEN [ok |-> FALSE, value |-> "API Error"]
    ELSE IF response.url # None THEN [ok |-> TRUE, value |-> <<"url", response.url[1]>>]
    ELSE IF response.b64_json # None
         THEN [ok |-> TRUE, value |-> <<"data:image/png;base64,", response.b64_json[1]>>]
    ELSE [ok |-> FALSE, value |-> "Invalid Response Structure"]

\* A completion that does not store the image.
CompleteUpdatesNoImage(generatedImage) == [status |-> COMPLETED]

\* The updates made when generateVariation has returned.
CompleteUpdates(generatedImage) ==
    [status |-> COMPLETED, generatedImageUrl |-> Some(generatedImage)]

\* generateVariation resolves: lines 176-180, then the await of delay(500).
GenerationReturns(l, response) ==
    /\ loops[l].pc = "generateVariation"
    /\ generateVariation(loops[l].config, response).ok
    /\ items' = updateItem(items, loops[l].id,
                    CompleteUpdates(generateVariation(loops[l].config, response).value))
    /\ logs' = addLog(logs, "success", "[Step 2] Image generation successful.", 0)
    /\ loops' = [loops EXCEPT ![l].pc = "delay", ![l].config = NoConfig]
    /\ UNCHANGED <<isProcessing, isProcessingRef, nextId, cmds, hist, conf>>

\* generateVariation rejects.
GenerationThrows(l, response) ==
    /\ loops[l].pc = "generateVariation"
    /\ ~generateVariation(loops[l].config, response).ok
    /\ Catch(l, generateVariation(loops[l].config, response).value)
    /\ Signalled(l)
    /\ UNCHANGED <<isProcessing, isProcessingRef, nextId, cmds, conf>>

\* delay(500) resolves: lines 195-198, and the next pass or the finally block.
DelayReturns(l) ==
    /\ loops[l].pc = "delay"
    /\ LoopHead(l, logs, isProcessingRef, isProcessing, loops[l].closure)
    /\ LoopLeaves(l)
    /\ UNCHANGED <<nextId, cmds, failed, stopSnap, conf>>

\* A filter that clears the Completed items only.
ClearKeepsErrors(item) == item.status # COMPLETED

\* The filter of clearCompleted: the items it keeps.
ClearKeeps(item) == item.status # COMPLETED /\ item.status # ERROR

\* clearCompleted()
clearCompleted ==
    /\ Cmd
    /\ IF isProcessing
       THEN UNCHANGED <<items, logs>>
       ELSE /\ items' = SelectSeq(items, ClearKeeps)
            /\ logs' = addLog(logs, "info", "Cleared completed/error items.", 0)
    /\ useEffect
    /\ UNCHANGED <<isProcessing, isProcessingRef, loops, nextId, hist, conf>>

\* resetAll()
resetAll ==
    /\ Cmd
    /\ IF isProcessing
       THEN UNCHANGED <<items, logs>>
       ELSE /\ items' = <<>>
            /\ logs' = addLog(logs, "warning", "All items reset.", 0)
    /\ useEffect
    /\ UNCHANGED <<isProcessing, isProcessingRef, loops, nextId, hist, conf>>

Next ==
    \/ \E n \in 1..MaxBatch : handleFilesSelected(n)
    \/ \E id \in Ids : handleRemoveItem(id)
    \/ \E id \in Ids : Retry(id)
    \/ processQueue
    \/ stopProcessing
    \/ clearCompleted
    \/ resetAll
    \/ \E l \in LoopIds, text \in ChunkTexts : StreamChunk(l, text) /\ useEffect
    \/ \E l \in LoopIds : AnalysisReturns(l) /\ useEffect
    \/ \E l \in LoopIds, message \in AnalysisErrors : AnalysisThrows(l, message) /\ useEffect
    \/ \E l \in LoopIds, response \in Responses : GenerationReturns(l, response) /\ useEffect
    \/ \E l \in LoopIds, response \in Responses : GenerationThrows(l, response) /\ useEffect
    \/ \E l \in LoopIds : DelayReturns(l) /\ useEffect

Spec == Init /\ [][Next]_vars

\* The number of log records of this type and message.
LogCount(type, message) ==
    Cardinality({k \in 1..Len(logs) : logs[k].type = type /\ logs[k].message = message})

\* ------------------------------------------------------------- one run
\* start() has been called.
Started == LogCount("info", "Queue processing started.") > 0

\* One run of a batch: files are added, start() is called once, and from then
\* on only the stage calls and the delay return; there is no other command.
NextRun ==
    \/ ~Started /\ \E n \in 1..MaxBatch : handleFilesSelected(n)
    \/ ~Started /\ processQueue
    \/ \E l \in LoopIds, text \in ChunkTexts : StreamChunk(l, text) /\ useEffect
    \/ \E l \in LoopIds : AnalysisReturns(l) /\ useEffect
    \/ \E l \in LoopIds, message \in AnalysisErrors : AnalysisThrows(l, message) /\ useEffect
    \/ \E l \in LoopIds, response \in Responses : GenerationReturns(l, response) /\ useEffect
    \/ \E l \in LoopIds, response \in Responses : GenerationThrows(l, response) /\ useEffect
    \/ \E l \in LoopIds : DelayReturns(l) /\ useEffect

\* The run this specification is about: every stage call returns or throws,
\* and the timer of delay(500) fires.
RunFairness ==
    /\ WF_vars(\E l \in LoopIds :
                  /\ AnalysisReturns(l) \/ \E message \in AnalysisErrors : AnalysisThrows(l, message)
                  /\ useEffect)
    /\ WF_vars(\E l \in LoopIds, response \in Responses :
                  /\ GenerationReturns(l, response) \/ GenerationThrows(l, response)
                  /\ useEffect)
    /\ WF_vars(\E l \in LoopIds : DelayReturns(l) /\ useEffect)

FairSpec == Init /\ [][NextRun]_vars /\ RunFairness

\* ------------------------------------------------------------- settings and answers
\* onSave of the settings dialog.
onSave(newSettings) ==
    /\ Cmd
    /\ settings' = newSettings
    /\ logs' = addLog(logs, "info", "Settings updated.", 0)
    /\ UNCHANGED <<items, isProcessing, isProcessingRef, loops, nextId, env, hist>>
    /\ useEffect

\* The state after the first render, in any build.
InitConfig == InitStore /\ env \in Keys

\* The settings saved in ConfigSpec: each key present or not.
SavedSettings == {s \in AppSettings : s.generationConfig.aspectRatio = "16:9"}

\* One run, with settings saved before or during it, in a build with or
\* without API_KEY.
NextConfig ==
    \/ ~Started /\ \E n \in 1..MaxBatch : handleFilesSelected(n)
    \/ ~Started /\ processQueue
    \/ \E newSettings \in SavedSettings : onSave(newSettings)
    \/ \E l \in LoopIds, text \in ChunkTexts : StreamChunk(l, text) /\ useEffect
    \/ \E l \in LoopIds : AnalysisReturns(l) /\ useEffect
    \/ \E l \in LoopIds, message \in AnalysisErrors : AnalysisThrows(l, message) /\ useEffect
    \/ \E l \in LoopIds, response \in Responses : GenerationReturns(l, response) /\ useEffect
    \/ \E l \in LoopIds, response \in Responses : GenerationThrows(l, response) /\ useEffect
    \/ \E l \in LoopIds : DelayReturns(l) /\ useEffect

ConfigSpec == InitConfig /\ [][NextConfig]_vars

\* One run against every answer of the generation service.
NextResponse ==
    \/ ~Started /\ \E n \in 1..MaxBatch : handleFilesSelected(n)
    \/ ~Started /\ processQueue
    \/ \E l \in LoopIds, text \in ChunkTexts : StreamChunk(l, text) /\ useEffect
    \/ \E l \in LoopIds : AnalysisReturns(l) /\ useEffect
    \/ \E l \in LoopIds, message \in AnalysisErrors : AnalysisThrows(l, message) /\ useEffect
    \/ \E l \in LoopIds, response \in AllResponses : GenerationReturns(l, response) /\ useEffect
    \/ \E l \in LoopIds, response \in AllResponses : GenerationThrows(l, response) /\ useEffect
    \/ \E l \in LoopIds : DelayReturns(l) /\ useEffect

ResponseSpec == Init /\ [][NextResponse]_vars

\* ------------------------------------------------------------- ids drawn at random
\* The queue with generateId drawing from RandomIds at every call.
NextId ==
    \/ \E n \in 1..MaxBatch : \E ids \in [1..n -> RandomIds] : filesSelected(ids)
    \/ \E id \in RandomIds : handleRemoveItem(id)
    \/ processQueue
    \/ \E l \in LoopIds, text \in ChunkTexts : StreamChunk(l, text) /\ useEffect
    \/ \E l \in LoopIds : AnalysisReturns(l) /\ useEffect
    \/ \E l \in LoopIds, message \in AnalysisErrors : AnalysisThrows(l, message) /\ useEffect
    \/ \E l \in LoopIds, response \in Responses : GenerationReturns(l, response) /\ useEffect
    \/ \E l \in LoopIds, response \in Responses : GenerationThrows(l, response) /\ useEffect
    \/ \E l \in LoopIds : DelayReturns(l) /\ useEffect

IdSpec == Init /\ [][NextId]_vars

\* ------------------------------------------------------------- silent services
\* One run in which a service may never answer.  fetchWithTimeout, which
\* generateVariation makes its request with, aborts the request when its
\* timer fires; describeImage makes its request through the SDK, with no
\* timer and no signal.
NextTimed ==
    \/ ~Started /\ \E n \in 1..MaxBatch : handleFilesSelected(n)
    \/ ~Started /\ processQueue
    \/ \E l \in LoopIds, text \in ChunkTexts : StreamChunk(l, text) /\ useEffect
    \/ \E l \in LoopIds : AnalysisReturns(l) /\ useEffect
    \/ \E l \in LoopIds, message \in AnalysisErrors : AnalysisThrows(l, message) /\ useEffect
    \/ \E l \in LoopIds, response \in Responses : GenerationReturns(l, response) /\ useEffect
    \/ \E l \in LoopIds, response \in Responses : GenerationThrows(l, response) /\ useEffect
    \/ \E l \in LoopIds : GenerationThrows(l, Aborted) /\ useEffect
    \/ \E l \in LoopIds : DelayReturns(l) /\ useEffect

\* The timers fire: the one of fetchWithTimeout while the request is pending,
\* the one of delay(500).  Nothing makes a service answer.
TimedFairness ==
    /\ WF_vars(\E l \in LoopIds : GenerationThrows(l, Aborted) /\ useEffect)
    /\ WF_vars(\E l \in LoopIds : DelayReturns(l) /\ useEffect)

TimedSpec == Init /\ [][NextTimed]_vars /\ TimedFairness

\* ------------------------------------------------------------- the effect as a task
\* The render a continuation's setItems has scheduled, and the effect after
\* it: itemsRef.current = items.
Commit ==
    /\ itemsRef # items
    /\ itemsRef' = items
    /\ UNCHANGED <<items, logs, isProcessing, isProcessingRef, loops, nextId, conf, cmds, hist>>

\* The last write of invocation l has been rendered: a stage call that
\* answers, and delay(500), leave the render scheduled before them the time
\* to run.
OwnWritesRendered(l) ==
    loops[l].id \in IdsOf(items) =>
        /\ loops[l].id \in IdsOf(itemsRef)
        /\ ItemOf(itemsRef, loops[l].id) = ItemOf(items, loops[l].id)

\* The queue with the render of a continuation's writes as a task of its own,
\* which a continuation of another invocation can run before.  A handler
\* runs after the renders scheduled before it.  The files are added before
\* the first start, and the generation service answers with an image.
NextRef ==
    \/ ~Started /\ \E n \in 1..MaxItems : handleFilesSelected(n)
    \/ itemsRef = items /\ processQueue
    \/ itemsRef = items /\ stopProcessing
    \/ \E l \in LoopIds, text \in ChunkTexts :
          OwnWritesRendered(l) /\ StreamChunk(l, text) /\ UNCHANGED itemsRef
    \/ \E l \in LoopIds : OwnWritesRendered(l) /\ AnalysisReturns(l) /\ UNCHANGED itemsRef
    \/ \E l \in LoopIds, message \in AnalysisErrors :
          OwnWritesRendered(l) /\ AnalysisThrows(l, message) /\ UNCHANGED itemsRef
    \/ \E l \in LoopIds, response \in Responses :
          OwnWritesRendered(l) /\ GenerationReturns(l, response) /\ UNCHANGED itemsRef
    \/ \E l \in LoopIds : OwnWritesRendered(l) /\ DelayReturns(l) /\ UNCHANGED itemsRef
    \/ Commit

RefSpec == Init /\ [][NextRef]_vars

\* The same with a load before the first start that is not counted, and
\* with retries of failed items; the stream is left out.
NextRetryRef ==
    \/ items = <<>> /\ ~Started /\ \E n \in 1..MaxItems :
          AppendFiles([k \in 1..n |-> generateId(nextId + k - 1)]) /\ UNCHANGED cmds
    \/ itemsRef = items /\ ~Running /\ processQueue
    \/ itemsRef = items /\ Running /\ stopProcessing
    \/ itemsRef = items /\ \E id \in IdsWith(items, {ERROR}) : Retry(id)
    \/ \E l \in LoopIds : OwnWritesRendered(l) /\ AnalysisReturns(l) /\ UNCHANGED itemsRef
    \/ \E l \in LoopIds, message \in AnalysisErrors :
          OwnWritesRendered(l) /\ AnalysisThrows(l, message) /\ UNCHANGED itemsRef
    \/ \E l \in LoopIds, response \in Responses :
          OwnWritesRendered(l) /\ GenerationReturns(l, response) /\ UNCHANGED itemsRef
    \/ \E l \in LoopIds : OwnWritesRendered(l) /\ DelayReturns(l) /\ UNCHANGED itemsRef
    \/ Commit

RetryRefSpec == Init /\ [][NextRetryRef]_vars

\* ------------------------------------------------------------- the queue driven
\* Files are chosen once before the first start, a load that is not counted
\* among the commands; from then on the user starts and stops the queue, adds
\* a file and retries failed items, at most MaxCmds times, while the
\* invocations of processQueue run.  The stream is left out.
NextDrive ==
    \/ items = <<>> /\ ~Started /\ \E n \in 1..MaxBatch :
          AppendFiles([k \in 1..n |-> generateId(nextId + k - 1)]) /\ UNCHANGED cmds
    \/ Started /\ handleFilesSelected(1)
    \/ \E id \in IdsWith(items, {ERROR}) : Retry(id)
    \/ ~Running /\ processQueue
    \/ Running /\ stopProcessing
    \/ \E l \in LoopIds : AnalysisReturns(l) /\ useEffect
    \/ \E l \in LoopIds, message \in AnalysisErrors : AnalysisThrows(l, message) /\ useEffect
    \/ \E l \in LoopIds, response \in Responses : GenerationReturns(l, response) /\ useEffect
    \/ \E l \in LoopIds, response \in Responses : GenerationThrows(l, response) /\ useEffect
    \/ \E l \in LoopIds : DelayReturns(l) /\ useEffect

\* Every stage call returns or throws, and the timer of delay(500) fires.
DriveSpec == Init /\ [][NextDrive]_vars /\ RunFairness

\* ------------------------------------------------------------- claims

\* The status changes the driver loop makes.
LoopTransitions ==
    {<<PENDING, ANALYZING>>, <<ANALYZING, GENERATING>>, <<GENERATING, COMPLETED>>,
     <<ANALYZING, ERROR>>, <<GENERATING, ERROR>>}

\* A step of the driver loop: the start of an invocation or a continuation of one.
LoopStep ==
    \/ processQueue
    \/ \E l \in LoopIds :
          \/ DelayReturns(l)
          \/ AnalysisReturns(l)
          \/ \E text \in ChunkTexts : StreamChunk(l, text)
          \/ \E message \in AnalysisErrors : AnalysisThrows(l, message)
          \/ \E response \in Responses : GenerationReturns(l, response)
          \/ \E response \in Responses : GenerationThrows(l, response)

\* C1: in every reachable state at most one item of the store has status
\* Analyzing or Generating.
C1_AtMostOneInFlight ==
    Cardinality({k \in 1..Len(items) : items[k].status \in InFlight}) <= 1

\* C2: at most one invocation of processQueue is between its guard and its
\* finally block at any time.
C2_AtMostOneLoop == Cardinality(ActiveLoops) <= 1

\* C3: every status change of an item is Pending->Analyzing,
\* Analyzing->Generating, Generating->Completed, Analyzing->Error or
\* Generating->Error, made by a step of the driver loop, or Error->Pending,
\* made by retry.
C3_StatusTransitions ==
    [][\A id \in IdsOf(items) \cap IdsOf(items') :
          LET s == ItemOf(items, id).status
              t == ItemOf(items', id).status
          IN  s # t => \/ <<s, t>> \in LoopTransitions /\ LoopStep
                       \/ <<s, t>> = <<ERROR, PENDING>> /\ Retry(id)]_vars

\* An item has gone Error -> Pending by retry and then on to Generating, next
\* to an item that is Completed.
C3_Witness ==
    /\ \E k \in 1..Len(items) :
          items[k].status = GENERATING /\ items[k].progressLog = <<"Retrying...">>
    /\ \E k \in 1..Len(items) : items[k].status = COMPLETED

\* One start that took effect, files added and no other command, and the loop
\* has just ended.
FullRunEnded ==
    /\ LogCount("info", "Queue processing started.") = 1
    /\ cmds = LogCount("info", "Added files to queue.") + 1
    /\ logs[Len(logs)].message = "Queue processing finished or stopped."

\* C4: when the loop of a full uninterrupted run ends, every item a stage
\* call failed for is Error with an error message, and every other item is
\* Completed with a result image.
C4_FailureDoesNotHaltBatch ==
    FullRunEnded =>
        \A k \in 1..Len(items) :
            IF failed[items[k].id] > 0
            THEN /\ items[k].status = ERROR
                 /\ items[k].error # None
                 /\ items[k].error # Some("")
                 /\ items[k].generatedImageUrl = None
            ELSE /\ items[k].status = COMPLETED
                 /\ items[k].generatedImageUrl # None
                 /\ items[k].error = None

\* A full run over three items has ended, a stage having failed for the
\* second only.
C4_Witness ==
    /\ FullRunEnded
    /\ Len(items) = 3
    /\ failed[items[1].id] = 0 /\ failed[items[2].id] = 1 /\ failed[items[3].id] = 0

\* The number of 'error' records of the log that name item id.
ErrorRecords(id) ==
    Cardinality({k \in 1..Len(logs) : logs[k].type = "error" /\ logs[k].item = id})

\* C5: the log holds one 'error' record for every failed pass of an item, and
\* no other 'error' record.
C5_OneErrorRecordPerFailure ==
    /\ \A id \in 1..MaxItems : ErrorRecords(id) = failed[id]
    /\ ErrorRecords(0) = 0

\* An item has failed twice (once before and once after a retry) and another
\* item's pass has succeeded.
C5_Witness ==
    /\ \E id \in Ids : failed[id] = 2
    /\ \E k \in 1..Len(items) : items[k].status = COMPLETED /\ failed[items[k].id] = 0

\* C6: after a stop with no command since, once every driver loop has left,
\* the items that were in flight at the stop are Completed or Error and the
\* items that were Pending at the stop are still Pending.
C6_StopLetsItemFinish ==
    (stopSnap.cmds = cmds /\ ActiveLoops = {}) =>
        /\ \A id \in stopSnap.inflight :
              id \in IdsOf(items) /\ ItemOf(items, id).status \in {COMPLETED, ERROR}
        /\ \A id \in stopSnap.pending :
              id \in IdsOf(items) /\ ItemOf(items, id).status = PENDING

\* The loop has left after a stop issued while an item was in flight and
\* another one Pending.
C6_Witness ==
    /\ stopSnap.cmds = cmds
    /\ ActiveLoops = {}
    /\ stopSnap.inflight # {}
    /\ stopSnap.pending # {}

\* C7: while a driver loop that was active at the last stop has not left, no
\* item goes from Pending to Analyzing.
C7_NoItemTakenAfterStop ==
    [][stoppedLoops # {} =>
          \A id \in IdsOf(items) \cap IdsOf(items') :
              ~(ItemOf(items, id).status = PENDING /\ ItemOf(items', id).status = ANALYZING)]_vars

\* C8: retry(id) on an Error item makes the item Pending with no error
\* message, result image or description, and leaves its id, its file, its
\* place and every other item as they were.
C8_RetryResets ==
    [][\A id \in IdsOf(items) :
          (Retry(id) /\ ItemOf(items, id).status = ERROR) =>
              /\ Len(items') = Len(items)
              /\ \A k \in 1..Len(items) :
                    IF items[k].id = id
                    THEN /\ items'[k].id = id
                         /\ items'[k].file = items[k].file
                         /\ items'[k].status = PENDING
                         /\ items'[k].error = None
                         /\ items'[k].generatedImageUrl = None
                         /\ items'[k].originalPrompt = None
                    ELSE items'[k] = items[k]]_vars

\* An item whose generation failed, its description written, has been
\* retried, behind an item that is Completed.
C8_Witness ==
    /\ Len(items) >= 2
    /\ items[1].status = COMPLETED
    /\ items[2].status = PENDING
    /\ items[2].progressLog = <<"Retrying...">>
    /\ failed[items[2].id] = 1

C10_RemoveKeepsActiveItem ==
    [][\A id \in IdsOf(items) :
          (handleRemoveItem(id) /\ ItemOf(items, id).status \in InFlight) =>
              id \in IdsOf(items')]_vars

\* The place of the item with this id in the store.
IndexOf(its, id) == CHOOSE k \in 1..Len(its) : its[k].id = id

\* C11: clearFinished() and resetAll() called while a driver loop is active
\* leave the store unchanged.
C11_NoClearWhileLoopActive ==
    [][((clearCompleted \/ resetAll) /\ ActiveLoops # {}) => items' = items]_vars

\* C12: clearFinished() while the engine is idle removes exactly the
\* Completed and Error items; the items that remain are unchanged and in the
\* same relative order.
C12_ClearRemovesFinished ==
    [][(clearCompleted /\ ~isProcessing) =>
          /\ IdsOf(items') = IdsOf(items) \ IdsWith(items, {COMPLETED, ERROR})
          /\ \A k \in 1..Len(items') : items'[k] = ItemOf(items, items'[k].id)
          /\ \A k, j \in 1..Len(items') :
                k < j => IndexOf(items, items'[k].id) < IndexOf(items, items'[j].id)]_vars

\* After add(2), start, stop and clear, the first item, which had finished,
\* is gone and the second, Pending, is what the store holds.
C12_Witness ==
    /\ cmds = 4
    /\ nextId = 3
    /\ LogCount("info", "Queue processing started.") = 1
    /\ LogCount("warning", "Processing stopped by user.") = 1
    /\ logs[Len(logs)].message = "Cleared completed/error items."
    /\ Len(items) = 1
    /\ items[1].id = 2
    /\ items[1].status = PENDING

\* C13: resetAll() or clearFinished() called while the engine is running is
\* rejected and appends a 'warning' record to the log.
C13_RejectedClearLogsWarning ==
    [][((clearCompleted \/ resetAll) /\ isProcessing) =>
          /\ items' = items
          /\ Len(logs') = Len(logs) + 1
          /\ logs'[Len(logs')].type = "warning"]_vars
\* C14: in every reachable state the stats satisfy total = pending +
\* completed + failed + (number of items Analyzing or Generating), total being
\* the length of the store and the others the numbers of Pending, Completed
\* and Error items.
C14_StatsAddUp ==
    LET s == stats(items) IN
    /\ s.total = s.pending + s.completed + s.failed + Cardinality(IdsWith(items, InFlight))
    /\ s.total = Len(items)
    /\ s.pending = Cardinality(IdsWith(items, {PENDING}))
    /\ s.completed = Cardinality(IdsWith(items, {COMPLETED}))
    /\ s.failed = Cardinality(IdsWith(items, {ERROR}))

\* Three items: one Completed, one Error and one in flight.
C14_Witness ==
    /\ stats(items) = [total |-> 3, completed |-> 1, failed |-> 1, pending |-> 0]
    /\ Cardinality(IdsWith(items, InFlight)) = 1

\* The ids of the store, in its order.
IdSeq(its) == [k \in 1..Len(its) |-> its[k].id]

\* C15: handleFilesSelected appends its items after those of the store, in
\* file order; remove, clearFinished and resetAll keep the relative order of
\* the items that remain; every other step leaves the sequence of ids as it is.
C15_InsertionOrder ==
    [][\/ \E n \in 1..MaxBatch :
             /\ handleFilesSelected(n)
             /\ SubSeq(items', 1, Len(items)) = items
             /\ Len(items') = Len(items) + n
             /\ \A k \in 1..n :
                   /\ items'[Len(items) + k].id = generateId(nextId + k - 1)
                   /\ items'[Len(items) + k].file = nextId + k - 1
       \/ /\ (\E id \in Ids : handleRemoveItem(id)) \/ clearCompleted \/ resetAll
          /\ IdsOf(items') \subseteq IdsOf(items)
          /\ \A k, j \in 1..Len(items') :
                k < j => IndexOf(items, items'[k].id) < IndexOf(items, items'[j].id)
       \/ IdSeq(items') = IdSeq(items)]_vars

\* Items added by two calls, the first updated to Completed, the second
\* removed: the first and the third are left, in that order.
C15_Witness ==
    /\ cmds = 4
    /\ nextId = 4
    /\ LogCount("info", "Added files to queue.") = 2
    /\ Len(items) = 2
    /\ items[1].id = 1 /\ items[1].status = COMPLETED
    /\ items[2].id = 3

\* C16: whenever an item goes from Pending to Analyzing, no Pending item
\* precedes it in the store.
C16_Fifo ==
    [][\A id \in IdsOf(items) \cap IdsOf(items') :
          (ItemOf(items, id).status = PENDING /\ ItemOf(items', id).status = ANALYZING) =>
              \A k \in 1..(IndexOf(items, id) - 1) : items[k].status # PENDING]_vars

\* The first item, retried, has been taken again before the third, which is
\* still Pending behind the finished second.
C16_Witness ==
    /\ Len(items) = 3
    /\ items[1].status = ANALYZING /\ items[1].progressLog = <<"Retrying...">>
    /\ items[2].status \in {COMPLETED, ERROR}
    /\ items[3].status = PENDING
\* The number of passes the loop has begun on the item with this id.
Passes(id) ==
    Cardinality({k \in 1..Len(logs) : logs[k].message = "Processing Item" /\ logs[k].item = id})

\* The run is over: no invocation is left, the engine is idle, every item is
\* Completed or Error and has had exactly one pass.
RunDone ==
    /\ ActiveLoops = {}
    /\ ~isProcessing /\ ~isProcessingRef
    /\ \A k \in 1..Len(items) :
          /\ items[k].status \in {COMPLETED, ERROR}
          /\ Passes(items[k].id) = 1

\* C17: in a run with no stop and no further command, where every stage call
\* returns, start() leads to a state where the loop has ended, the engine is
\* idle and every item is Completed or Error after exactly one pass; no item
\* ever has a second pass.
C17_RunTerminates ==
    /\ Started ~> RunDone
    /\ [](\A id \in Ids : Passes(id) <= 1)

\* A batch of three has been run to its end, with a failure in it.
C17_Witness ==
    /\ Started
    /\ RunDone
    /\ Len(items) = 3
    /\ Cardinality(IdsWith(items, {ERROR})) = 1

\* C18: generatedImageUrl is present exactly in the Completed items, error
\* exactly in the Error items, and so never both.
C18_ResultAndErrorFollowStatus ==
    \A k \in 1..Len(items) :
        /\ items[k].generatedImageUrl # None <=> items[k].status = COMPLETED
        /\ items[k].error # None <=> items[k].status = ERROR
        /\ ~(items[k].generatedImageUrl # None /\ items[k].error # None)

\* A Completed item with its image next to an Error item with its message
\* and an item retried after a failure.
C18_Witness ==
    /\ Len(items) = 3
    /\ \E k \in 1..3 : items[k].status = COMPLETED /\ items[k].generatedImageUrl # None
    /\ \E k \in 1..3 : items[k].status = ERROR /\ items[k].error # None
    /\ \E k \in 1..3 : /\ items[k].status = PENDING
                       /\ items[k].progressLog = <<"Retrying...">>
                       /\ items[k].error = None

\* C19: an Analyzing item carries the last partial text its analysis call
\* delivered, the empty text before the first; when the call returns the item
\* carries the returned value, which is the description passed to
\* generateVariation, and keeps it while it is Generating and Completed.
C19_DescriptionFollowsAnalysis ==
    /\ [](\A k \in 1..Len(items) :
            /\ items[k].status = ANALYZING =>
                  \E l \in LoopIds : /\ loops[l].pc = "describeImage"
                                     /\ loops[l].id = items[k].id
                                     /\ items[k].originalPrompt = Some(loops[l].fullText)
            /\ items[k].status = GENERATING =>
                  \E l \in LoopIds : /\ loops[l].pc = "generateVariation"
                                     /\ loops[l].id = items[k].id
                                     /\ items[k].originalPrompt = Some(loops[l].fullText))
    /\ [][/\ \A l \in LoopIds :
                (AnalysisReturns(l) /\ loops[l].id \in IdsOf(items)) =>
                    /\ ItemOf(items', loops[l].id).originalPrompt = Some(describeImage(loops[l].fullText))
                    /\ loops'[l].fullText = describeImage(loops[l].fullText)
          /\ \A id \in IdsOf(items) \cap IdsOf(items') :
                (/\ ItemOf(items, id).status \in {GENERATING, COMPLETED}
                 /\ ItemOf(items', id).status \in {GENERATING, COMPLETED}) =>
                    ItemOf(items', id).originalPrompt = ItemOf(items, id).originalPrompt]_vars

\* An analysis whose stream delivered nothing has returned: the item, now
\* Completed, carries the returned text, not the empty partial one.
C19_Witness ==
    \E k \in 1..Len(items) :
        /\ items[k].status = COMPLETED
        /\ items[k].originalPrompt = Some(NoDescription)

\* C20: a chunk of the analysis stream of one item changes nothing in the
\* store but the originalPrompt of that item.
C20_PartialUpdateFrame ==
    [][\A l \in LoopIds, text \in ChunkTexts :
          StreamChunk(l, text) =>
              /\ Len(items') = Len(items)
              /\ \A k \in 1..Len(items) :
                    IF items[k].id = loops[l].id
                    THEN items'[k] = [items[k] EXCEPT !.originalPrompt = items'[k].originalPrompt]
                    ELSE items'[k] = items[k]]_vars

\* Two invocations stream at once, each into its own item.
C20_Witness ==
    /\ Len(items) = 2
    /\ loops[1].pc = "describeImage" /\ loops[2].pc = "describeImage"
    /\ loops[1].id # loops[2].id
    /\ ItemOf(items, loops[1].id).originalPrompt = Some(<<"a", "a">>)
    /\ ItemOf(items, loops[2].id).originalPrompt = Some(<<"a">>)
\* C21: a write of an invocation whose item is no longer in the store (the
\* partial and the final description, Completed, Error) leaves the store as
\* it is, and after its delay the invocation takes the first Pending item if
\* the flag is still set.
C21_UpdateOfAbsentIdIsNoOp ==
    [][\A l \in LoopIds :
          (loops[l].pc # "none" /\ loops[l].id \notin IdsOf(items) /\ loops'[l] # loops[l]) =>
              /\ loops[l].pc \in {"describeImage", "generateVariation"} => items' = items
              /\ (loops[l].pc = "delay" /\ isProcessingRef /\ findIndex(items) # 0) =>
                    /\ loops'[l].pc = "describeImage"
                    /\ loops'[l].id = items[findIndex(items)].id
                    /\ IdSeq(items') = IdSeq(items)]_vars

\* The store was reset while an analysis was in flight, and the analysis has
\* returned since: its writes found no item.
C21_Witness ==
    /\ items = <<>>
    /\ \E k, j \in 1..Len(logs) :
          /\ k < j
          /\ logs[k].message = "All items reset."
          /\ logs[j].message = "[Step 1] Analysis complete."

\* C22: the items of the store have pairwise distinct ids, and a write of an
\* invocation changes at most one item.
C22_IdsUnique ==
    [][/\ \A k, j \in 1..Len(items') : k # j => items'[k].id # items'[j].id
       /\ (\E l \in LoopIds : loops'[l] # loops[l]) /\ Len(items') = Len(items) =>
             Cardinality({k \in 1..Len(items) : items'[k] # items[k]}) <= 1]_vars

\* C23: an item that is Analyzing or Generating leaves that status, whether
\* or not the service answers.
C23_StageCallsEnd ==
    \A id \in 1..MaxItems :
        (id \in IdsWith(items, InFlight)) ~> (id \notin IdsWith(items, InFlight))
\* The message generateVariation throws with when there is no key.
GenerationKeyMissing == "API Key for Generation step is missing."

\* C24: a stage call made without a key ends in the catch block and in
\* nothing else: the failure is counted, the item (if still in the store) gets
\* status Error and a non-empty error and keeps the description it had, no
\* other item changes, and the invocation is at its delay, from where it goes
\* on as after any failure.
C24_MissingKeyIsStageFailure ==
    [][\A l \in LoopIds :
          (/\ loops[l].pc \in {"describeImage", "generateVariation"}
           /\ ApiKey(loops[l].config) = ""
           /\ loops'[l] # loops[l]) =>
              /\ loops'[l].pc = "delay"
              /\ failed'[loops[l].id] = failed[loops[l].id] + 1
              /\ logs'[Len(logs')].type = "error"
              /\ Len(items') = Len(items)
              /\ \A k \in 1..Len(items) :
                    IF items[k].id = loops[l].id
                    THEN /\ items'[k].status = ERROR
                         /\ items'[k].error # None
                         /\ items'[k].error[1] \in {AnalysisKeyMissing, GenerationKeyMissing}
                         /\ items'[k].originalPrompt = items[k].originalPrompt
                         /\ items'[k].generatedImageUrl = None
                    ELSE items'[k] = items[k]]_vars

\* The first item failed for want of the analysis key, the second, after a
\* save, for want of the generation key, and the third has been taken.
C24_Witness ==
    /\ Len(items) = 3
    /\ items[1].status = ERROR /\ items[1].error = Some(AnalysisKeyMissing)
    /\ items[2].status = ERROR /\ items[2].error = Some(GenerationKeyMissing)
    /\ items[3].status = ANALYZING

\* C25: generateVariation, made with a key, succeeds exactly on an answer
\* with status ok that carries data[0].url or data[0].b64_json, with the url
\* if it carries both; on every other answer the item becomes Error and has
\* no generatedImageUrl; a Completed item always has one.
C25_GenerationAnswer ==
    [][/\ \A l \in LoopIds, response \in AllResponses :
             (/\ loops[l].pc = "generateVariation"
              /\ ~KeyMissing(loops[l].config)
              /\ loops[l].id \in IdsOf(items)
              /\ GenerationReturns(l, response) \/ GenerationThrows(l, response)) =>
                 LET after == ItemOf(items', loops[l].id) IN
                 IF response.kind = "ok" /\ response.url # None
                 THEN after.status = COMPLETED
                      /\ after.generatedImageUrl = Some(<<"url", response.url[1]>>)
                 ELSE IF response.kind = "ok" /\ response.b64_json # None
                 THEN after.status = COMPLETED
                      /\ after.generatedImageUrl =
                            Some(<<"data:image/png;base64,", response.b64_json[1]>>)
                 ELSE after.status = ERROR /\ after.generatedImageUrl = None
                      /\ after.error # None
       /\ \A k \in 1..Len(items') :
             items'[k].status = COMPLETED => items'[k].generatedImageUrl # None]_vars

\* An item completed from inline data, one from a url, and one failed on an
\* answer with neither.
C25_Witness ==
    /\ \E k \in 1..Len(items) :
          items[k].generatedImageUrl = Some(<<"data:image/png;base64,", "b">>)
    /\ \E k \in 1..Len(items) : items[k].generatedImageUrl = Some(<<"url", "u">>)
    /\ \E k \in 1..Len(items) :
          items[k].status = ERROR /\ items[k].error = Some("Invalid Response Structure")
\* C26: a step of an invocation of processQueue (its start, a partial or a
\* final description, a status change, a result, an error, the search after
\* the delay) leaves the sequence of the ids of the store as it is.
C26_LoopKeepsIds ==
    [][(\E l \in LoopIds : loops'[l] # loops[l]) => IdSeq(items') = IdSeq(items)]_vars

\* Three items have had their pass, with a result and an error among them, and
\* are where they were.
C26_Witness ==
    /\ IdSeq(items) = <<1, 2, 3>>
    /\ \A id \in 1..3 : Passes(id) = 1
    /\ IdsWith(items, {COMPLETED}) # {}
    /\ IdsWith(items, {ERROR}) # {}
    /\ ActiveLoops = {}

\* C27: processQueue called with the flag set changes no item, appends no log
\* record, starts no invocation and leaves both flags set.
C27_StartWhileRunning ==
    [][(processQueue /\ isProcessingRef) =>
          /\ UNCHANGED <<items, logs, loops>>
          /\ isProcessingRef' /\ isProcessing']_vars

\* A command issued while the queue was running left no trace: a second start.
C27_Witness ==
    /\ cmds = 3
    /\ LogCount("info", "Added files to queue.") = 1
    /\ LogCount("info", "Queue processing started.") = 1
    /\ isProcessingRef /\ isProcessing
    /\ Cardinality(ActiveLoops) = 1

\* C28: the item an invocation takes after a search is Pending in the store
\* as the writes made before the search have left it.
C28_SearchSeesWrites ==
    [][\A l \in LoopIds :
          (loops'[l].pc = "describeImage" /\ loops[l].pc \in {"none", "delay"}) =>
              /\ loops'[l].id \in IdsOf(items)
              /\ ItemOf(items, loops'[l].id).status = PENDING]_vars

\* C29: a stage call is given the configuration of the settings as they are
\* when it is made, describeImage the analysis one and generateVariation the
\* generation one, whatever they were when processQueue was called or when the
\* pass began.
C29_StageCallsReadCurrentSettings ==
    [][\A l \in LoopIds :
          /\ (loops'[l].pc = "describeImage" /\ loops[l].pc # "describeImage") =>
                loops'[l].config = settings'.analysisConfig
          /\ (loops'[l].pc = "generateVariation" /\ loops[l].pc = "describeImage") =>
                loops'[l].config = settings'.generationConfig]_vars

\* The settings were saved while the analysis of the first item was in
\* flight, and its generation call was given the saved configuration, not the
\* one of the start.
C29_Witness ==
    \E l \in LoopIds :
        /\ loops[l].pc = "generateVariation"
        /\ loops[l].id = 1
        /\ loops[l].config = settings.generationConfig
        /\ loops[l].config # loops[l].closure.generationConfig
        /\ \E k \in 1..Len(logs) :
              /\ logs[k].message = "Settings updated."
              /\ \E j \in 1..(k - 1) : logs[j].message = "[Step 1] Sending to Vision API..."
              /\ \E j \in (k + 1)..Len(logs) : logs[j].message = "[Step 1] Analysis complete."

\* C30: when isProcessing is false no invocation of processQueue is active
\* and no item is Analyzing or Generating.
C30_IdleMeansNoLoop ==
    ~isProcessing => (ActiveLoops = {} /\ IdsWith(items, InFlight) = {})

\* The number of 'Queue processing finished or stopped.' records.
Finished == LogCount("info", "Queue processing finished or stopped.")

\* C31: an invocation of processQueue appends its 'finished or stopped'
\* record when it leaves and not before, whatever makes it leave, and the
\* step that appends the record clears both running flags, so that the next
\* start() is accepted; when the stage calls return, every invocation that has
\* started leaves.
C31_LoopExitClearsFlag ==
    /\ [](LogCount("info", "Queue processing started.") = Finished + Cardinality(ActiveLoops))
    /\ [][Finished' # Finished =>
             /\ Finished' = Finished + 1
             /\ logs'[Len(logs')].message = "Queue processing finished or stopped."
             /\ ~isProcessingRef' /\ ~isProcessing'
             /\ ~Running']_vars
    /\ \A l \in LoopIds : (loops[l].pc # "none") ~> (loops[l].pc = "none")

\* Two invocations have started, one of them after a stop, and both have
\* left, each with its record; an item has failed and one has completed.
C31_Witness ==
    /\ LogCount("info", "Queue processing started.") = 2
    /\ LogCount("warning", "Processing stopped by user.") = 1
    /\ Finished = 2
    /\ ActiveLoops = {}
    /\ IdsWith(items, {ERROR}) # {}
    /\ IdsWith(items, {COMPLETED}) # {}

\* C32: an invocation of processQueue that no stop() has been addressed to
\* does not leave while the store has a Pending item: it takes that item,
\* with no further start().
C32_LoopTakesNewPending ==
    [][\A l \in LoopIds :
          (loops[l].pc # "none" /\ loops'[l].pc = "none") =>
              (IdsWith(items, {PENDING}) = {} \/ l \in stoppedLoops)]_vars

\* s is a proper prefix of t.
ProperPrefix(s, t) == Len(s) < Len(t) /\ SubSeq(t, 1, Len(s)) = s

\* C34: within one call of describeImage every text passed to onStreamUpdate,
\* which writes it to the item, is the text passed before it (the empty text
\* before the first) extended at its end, and when a text has been passed
\* the call returns the last one.  The call keeps the last text in fullText.
C34_PartialsAreCumulative ==
    [][\A l \in LoopIds :
          LET id == loops[l].id IN
          (loops[l].pc = "describeImage" /\ id \in IdsOf(items) \cap IdsOf(items')) =>
              LET last == loops[l].fullText
                  partial == ItemOf(items', id).originalPrompt
              IN  /\ (loops'[l].pc = "describeImage" /\ loops'[l].fullText # last) =>
                         /\ partial = Some(loops'[l].fullText)
                         /\ ProperPrefix(last, partial[1])
                  /\ (loops'[l].pc = "generateVariation" /\ last # EmptyText) =>
                         /\ loops'[l].fullText = last
                         /\ partial = Some(last)]_vars

\* A call of describeImage has passed two texts and returned the second.
C34_Witness ==
    \E l \in LoopIds :
        /\ loops[l].pc = "generateVariation"
        /\ Len(loops[l].fullText) = 2
        /\ loops[l].fullText # NoDescription
        /\ loops[l].id \in IdsOf(items)
        /\ ItemOf(items, loops[l].id).originalPrompt = Some(loops[l].fullText)

\* C33: a call of describeImage that returns returns a text that is not
\* empty, the placeholder when the stream has delivered none; so
\* generateVariation is never called with an empty description, and an item
\* that is Generating or Completed has a description that is not empty.
C33_DescriptionNotEmpty ==
    /\ [](\A l \in LoopIds :
             loops[l].pc = "generateVariation" => loops[l].fullText # EmptyText)
    /\ [](\A k \in 1..Len(items) :
             items[k].status \in {GENERATING, COMPLETED} =>
                 items[k].originalPrompt \notin {None, Some(EmptyText)})
    /\ [][\A l \in LoopIds :
             (loops[l].pc = "describeImage" /\ loops'[l].pc = "generateVariation"
                /\ loops[l].fullText = EmptyText) => loops'[l].fullText = NoDescription]_vars

\* An item whose stream delivered no text has completed with the placeholder
\* as its description.
C33_Witness ==
    \E k \in 1..Len(items) :
        /\ items[k].status = COMPLETED
        /\ items[k].originalPrompt = Some(NoDescription)
=============================================================================
